---- MODULE Spec2Model ----
(***************************************************************************)
(* TorrServerDebridService.resolve (packages/core/src/debrid/torrserver.ts)*)
(* as a timed state machine.  Every call of resolve runs under the         *)
(* distributed lock, against the shared playback link cache and the        *)
(* TorrServer gateway.  Time is counted in milliseconds.  Only the two     *)
(* setTimeout delays of the code let time pass: every other step is        *)
(* instantaneous, and time advances from one instant at which something is *)
(* due (a delay ends, a lock or a cache entry expires) to the next one.    *)
(* The gateway is the environment: each of its answers is drawn from a     *)
(* small set.                                                              *)
(***************************************************************************)
EXTENDS Integers, Sequences, FiniteSets, TLC

\* ------------------------------------------------------------ bounds
\* number of resolve calls
NumTasks == 2
\* Env.BUILTIN_DEBRID_PLAYBACK_LINK_CACHE_TTL, a configuration value (seconds)
PLAYBACK_LINK_CACHE_TTL == 100
\* hex digits of an info hash (the code's forty)
HashLen == 2
\* seconds the calls are watched for
Horizon == 25
\* characters of a configured credential, at most
AuthLen == 3
\* streams given to convert, at most
MaxStreams == 2
\* awaits of a behaviour that are answered late, at most
MaxLate == 1

\* ------------------------------------------------- program constants
\* setTimeout after POST /torrents/add
TORRSERVER_ADD_DELAY_MS == 2000
TORRSERVER_MAX_POLL_ATTEMPTS == 10
\* setTimeout of the polling loop
TORRSERVER_POLL_INTERVAL_MS == 11000

\* ttl option resolve passes to withLock, milliseconds
LOCK_TTL == 10000
\* TTL of the negative playback link entry, seconds
NEGATIVE_TTL == 60

\* n seconds
Seconds(n) == n * 1000

\* how late the cache and the gateway answer, when they do not answer at
\* once, in milliseconds: a lookup of the cache, POST /torrents/add,
\* GET /torrents, a write to the cache.  The longer one of each makes the TTL
\* of the lock pass before the call goes on.
LookupLatencies == { 3000, 11000 }
PostLatencies == { 3000, 9000 }
ListLatencies == { 500, 9000 }
WriteLatencies == { 9000 }
SelectLatencies == { 500 }

\* ------------------------------------------------------------ hashes
\* the hexadecimal digits ([a-fA-F0-9] of the code) that are used here
HexDigits == { "a", "b", "A", "B", "3" }

LowerChar(c) ==
  CASE c = "A" -> "a"
    [] c = "B" -> "b"
    [] OTHER -> c

toLowerCase(h) == [i \in 1..Len(h) |-> LowerChar(h[i])]

LowerHash == [i \in 1..HashLen |-> IF i = 1 THEN "a" ELSE "b"]
UpperHash == [i \in 1..HashLen |-> IF i = 1 THEN "A" ELSE "B"]
\* not an info hash: a digit is missing
ShortHash == [i \in 1..(HashLen - 1) |-> "a"]

Hashes == { LowerHash, UpperHash }

\* ------------------------------------------------------------ requests
Metas == { "s1e1" }
Filenames == { "f1", "f2" }
ClientIps == { "ip1" }
Tokens == { "tok1" }

\* A call of resolve: PlaybackInfo (index: the optional file index, a
\* sequence of at most one number), the two other parameters of resolve, and
\* the configuration of the service the call runs on
TorrentRequests ==
  [ method : {"resolve"}, type : {"torrent"}, hash : Hashes, metadata : Metas, sources : {<< >>},
    index : {<< >>}, filename : Filenames, cacheAndPlay : BOOLEAN,
    clientIp : ClientIps, token : Tokens ]

OtherRequests ==
  [ method : {"resolve"}, type : {"usenet"}, hash : {LowerHash}, metadata : Metas, sources : {<< >>},
    index : {<< >>}, filename : {"f1"}, cacheAndPlay : {FALSE},
    clientIp : ClientIps, token : Tokens ]
  \cup
  [ method : {"resolve"}, type : {"torrent"}, hash : {ShortHash}, metadata : Metas, sources : {<< >>},
    index : {<< >>}, filename : {"f1"}, cacheAndPlay : {FALSE},
    clientIp : ClientIps, token : Tokens ]

Requests == TorrentRequests \cup OtherRequests

\* A call of addMagnet(magnet) from outside resolve, for a magnet with an
\* info hash or without one
AddMagnetRequests ==
  [ method : {"addMagnet"}, type : {"torrent"}, hash : {LowerHash, ShortHash},
    metadata : {""}, sources : {<< >>}, index : {<< >>}, filename : {""},
    cacheAndPlay : {FALSE}, clientIp : {""}, token : Tokens ]

\* A call of listMagnets() from outside resolve
ListMagnetsRequest ==
  [ method |-> "listMagnets", type |-> "none", hash |-> << >>, metadata |-> "",
    sources |-> << >>, index |-> << >>, filename |-> "",
    cacheAndPlay |-> FALSE, clientIp |-> "", token |-> "tok1" ]

\* the request of a call that has not been made
NoRequest ==
  [ method |-> "none", type |-> "none", hash |-> << >>, metadata |-> "", sources |-> << >>,
    index |-> << >>, filename |-> "", cacheAndPlay |-> FALSE,
    clientIp |-> "", token |-> "" ]

\* ------------------------------------------------------------ gateway
\* stat of a torrent in the gateway's answer: a number, or missing (<< >>)
RawStats == { <<0>>, <<1>>, <<2>>, <<3>>, << >> }

\* mapTorrServerStatus gone wrong: a downloading torrent counts as ready
mapDownloadingAsCached(stat) ==
  CASE stat = <<0>> -> "queued"
    [] stat = <<1>> -> "cached"
    [] stat = <<2>> -> "cached"
    [] OTHER -> "unknown"

mapTorrServerStatus(stat) ==
  CASE stat = <<0>> -> "queued"
    [] stat = <<1>> -> "downloading"
    [] stat = <<2>> -> "cached"
    [] OTHER -> "unknown"

File(i, n, e, s) == [ index |-> i, name |-> n, ep |-> e, size |-> s ]

TwoEpisodes == << File(0, "e1.mkv", "s1e1", 5), File(1, "e2.mkv", "s1e2", 5) >>
TwoOthers == << File(0, "a.bin", "none", 5), File(1, "b.bin", "none", 5) >>

\* file_stats the gateway may report for a torrent
FileLists == { << >>, TwoEpisodes, TwoOthers }

\* a torrent of the gateway's GET /torrents answer: a seeding torrent with
\* any of the file lists, or a torrent in any state
GwTorrents ==
  [ stat : {<<2>>}, files : FileLists ] \cup [ stat : RawStats, files : {TwoEpisodes} ]

\* the gateway names its torrents by lower-case hash
CanonHashes == { toLowerCase(h) : h \in Hashes }

\* the answers GET /torrents may give: the torrents listed, by hash
ListAnswers == UNION { [S -> GwTorrents] : S \in SUBSET CanonHashes }

NoDownload == [ hash |-> << >>, status |-> "none", files |-> << >>, raw |-> << >> ]

\* one element of listMagnets' result (raw: the stat it was mapped from)
DebridDownload(h, t) ==
  [ hash |-> h, status |-> mapTorrServerStatus(t.stat), files |-> t.files,
    raw |-> t.stat ]

\* listMagnets: the torrents of the gateway's answer, or none when the
\* request fails
listMagnets(ok, answer) ==
  IF ok THEN [ h \in DOMAIN answer |-> DebridDownload(h, answer[h]) ]
  ELSE << >>

\* list.find((t) => t.hash === hash) finds a torrent
Listed(list, hash) == hash \in DOMAIN list

\* "magnet:?xt=urn:btih:", character by character
MagnetPrefix ==
  << "m", "a", "g", "n", "e", "t", ":", "?", "x", "t", "=", "u", "r", "n", ":",
     "b", "t", "i", "h", ":" >>

Btih == << "b", "t", "i", "h", ":" >>

\* "&tr=" and then the tracker, for every tracker: `&tr=${join('&tr=')}`
RECURSIVE JoinTrackers(_)
JoinTrackers(trackers) ==
  IF trackers = << >> THEN << >>
  ELSE << "&", "t", "r", "=" >> \o Head(trackers) \o JoinTrackers(Tail(trackers))

\* the magnet _resolve builds from the hash as given and the sources as given
ResolveMagnet(hash, sources) == MagnetPrefix \o hash \o JoinTrackers(sources)

Magnet(r) == ResolveMagnet(r.hash, r.sources)

\* encodeURIComponent on the characters used here: ":" is escaped
RECURSIVE encodeURIComponent(_)
encodeURIComponent(str) ==
  IF str = << >> THEN << >>
  ELSE (IF Head(str) = ":" THEN << "%", "3", "A" >> ELSE << Head(str) >>)
         \o encodeURIComponent(Tail(str))

\* TorrServerConverter.buildMagnetLink: the trackers are URI-encoded
buildMagnetLink(infoHash, trackers) ==
  MagnetPrefix \o infoHash
    \o JoinTrackers([i \in 1..Len(trackers) |-> encodeURIComponent(trackers[i])])

\* buildMagnetLink of the oldest generation of the converter: the trackers
\* are joined as they are, not URI-encoded
buildMagnetLinkOldest(infoHash, trackers) ==
  MagnetPrefix \o infoHash \o JoinTrackers(trackers)

\* the regular expression btih:([a-fA-F0-9]{40}) with flag i matches at
\* position i of the magnet
MatchesAt(magnet, i) ==
  /\ i + Len(Btih) + HashLen - 1 <= Len(magnet)
  /\ toLowerCase(SubSeq(magnet, i, i + Len(Btih) - 1)) = Btih
  /\ \A j \in 1..HashLen : magnet[i + Len(Btih) + j - 1] \in HexDigits

\* extractHashFromMagnet gone wrong: the digits are returned as written
extractHashAsWritten(magnet) ==
  LET at == { i \in 1..Len(magnet) : MatchesAt(magnet, i) }
      first == CHOOSE i \in at : \A j \in at : i <= j
  IN IF at = {} THEN << >>
     ELSE SubSeq(magnet, first + Len(Btih), first + Len(Btih) + HashLen - 1)

\* extractHashFromMagnet: the HashLen hex digits of the leftmost match, in
\* lower case, or null (<< >>)
extractHashFromMagnet(magnet) ==
  LET at == { i \in 1..Len(magnet) : MatchesAt(magnet, i) }
      first == CHOOSE i \in at : \A j \in at : i <= j
  IN IF at = {} THEN << >>
     ELSE toLowerCase(SubSeq(magnet, first + Len(Btih),
                             first + Len(Btih) + HashLen - 1))

VARIABLES
  now,        \* milliseconds since the start
  pc,         \* where each call is
  req,        \* its request
  wakeAt,     \* end of the setTimeout it waits for
  attempt,    \* i of the polling loop
  md,         \* magnetDownload
  cachedLink, \* what the call's cache lookup returned
  result,     \* what resolve returned or threw
  lock,       \* the distributed lock: key -> holder and expiry
  cache,      \* playbackLinkCache: key -> value and expiry
  adds,       \* POST /torrents/add requests each call sent
  lists,      \* listMagnets calls each call made
  prior,      \* the calls that had returned when this one started
  fresh,      \* those of them whose cache entry had not expired when this
              \* one looked the cache up
  behind,     \* the holder of the call's key when the call started
  stored,     \* the last entry each call wrote to the cache
  landing,    \* the writes of each call that are on their way to the
              \* cache: the value, and the instant at which it reaches it
  late,       \* the awaits answered late so far
  io          \* outside resolve: the operation applied to given inputs, with
              \* its inputs and, once applied, its outputs

vars == << now, pc, req, wakeAt, attempt, md, cachedLink, result, lock, cache,
           adds, lists, prior, fresh, behind, stored, landing, late, io >>

\* the variables of the calls of resolve
resolveVars ==
  << now, pc, req, wakeAt, attempt, md, cachedLink, result, lock, cache,
     adds, lists, prior, fresh, behind, stored, landing, late >>

\* no operation outside resolve is under way
NoIo == [ op |-> "none" ]

Tasks == DOMAIN pc

\* ------------------------------------------------------------ keys
\* getSimpleTextHash(token): a digest, one value per token
getSimpleTextHash(tok) == << "digest", tok >>

\* the key resolve locks
LockKey(r) ==
  << "torrserver:resolve", r.hash, r.metadata, r.filename, r.cacheAndPlay, r.clientIp >>

\* CacheKey gone wrong: the link is cached under the key that is locked
CacheKeyAsLockKey(r) ==
  << "torrserver", getSimpleTextHash(r.token), r.hash, r.metadata, r.filename,
     r.cacheAndPlay >>

\* the key _resolve reads and writes the playback link under
CacheKey(r) ==
  << "torrserver", getSimpleTextHash(r.token), r.hash, r.metadata >>

LockKeys == { LockKey(r) : r \in Requests }
CacheKeys == { CacheKey(r) : r \in Requests }

\* ------------------------------------------------------------ lock
\* holder: the set of the holding call, empty when the key is free
FreeLock == [ holder |-> {}, expiry |-> 0 ]

\* a key is held until its holder releases it or its TTL has passed
Held(k) == lock[k].holder # {} /\ now < lock[k].expiry


\* ------------------------------------------------------------ cache
Undefined == [ kind |-> "undefined" ]
Null == [ kind |-> "null" ]
Unread == [ kind |-> "unread" ]
NoEntry == [ val |-> Undefined, expiry |-> 0 ]

\* no write is on its way to the cache
NoLanding == {}

\* Cache.get: the value, or undefined once the entry has expired
CacheGet(k) == IF now < cache[k].expiry THEN cache[k].val ELSE Undefined

\* Cache.set with a TTL in seconds
CacheSet(c, k, v, ttl) ==
  [c EXCEPT ![k] = [ val |-> v, expiry |-> now + Seconds(ttl) ]]

\* ------------------------------------------------------------ results
Pending == [ kind |-> "pending" ]
NotReady == [ kind |-> "undefined" ]
Url(u) == [ kind |-> "url", url |-> u ]
Thrown(code) == [ kind |-> "error", code |-> code ]

\* ------------------------------------------------------ file selection
\* least element of a set of positions, 0 for the empty set
MinPos(S) == IF S = {} THEN 0 ELSE CHOOSE i \in S : \A j \in S : i <= j

\* selectFileInTorrentOrNZB: the explicit index if a file has it, else the
\* first file of the requested episode, else the only file, else none
\* (position 0)
selectFile(fs, r) ==
  LET byIndex == { i \in 1..Len(fs) : r.index # << >> /\ << fs[i].index >> = r.index }
      byMeta == { i \in 1..Len(fs) : fs[i].ep = r.metadata }
  IN IF byIndex # {} THEN MinPos(byIndex)
     ELSE IF byMeta # {} THEN MinPos(byMeta)
     ELSE IF Len(fs) = 1 THEN 1
     ELSE 0

\* the stream URL _resolve builds for the selected file
StreamUrl(r, f) ==
  [ userinfo |-> << >>,
    path |-> << "stream", f.name >>,
    query |-> << << "link", Magnet(r) >>, << "index", f.index >> >> ]

\* ------------------------------------------------------------ init
\* no call has been made: T is the set of the calls to come
InitOf(T) ==
  /\ now = 0
  /\ pc = [t \in T |-> "idle"]
  /\ req = [t \in T |-> NoRequest]
  /\ wakeAt = [t \in T |-> 0]
  /\ attempt = [t \in T |-> 0]
  /\ md = [t \in T |-> NoDownload]
  /\ cachedLink = [t \in T |-> Unread]
  /\ result = [t \in T |-> Pending]
  /\ lock = [k \in LockKeys |-> FreeLock]
  /\ cache = [k \in CacheKeys |-> NoEntry]
  /\ adds = [t \in T |-> 0]
  /\ lists = [t \in T |-> 0]
  /\ prior = [t \in T |-> {}]
  /\ fresh = [t \in T |-> {}]
  /\ behind = [t \in T |-> {}]
  /\ stored = [t \in T |-> NoEntry]
  /\ landing = [t \in T |-> NoLanding]
  /\ late = 0

Init == InitOf(1..NumTasks) /\ io = NoIo

\* ------------------------------------------------------------ awaits
\* What resolve awaits from outside (the cache, the gateway) is answered
\* after a latency: at once, or late.  At most MaxLate awaits of a behaviour
\* are answered late.
LookupAnswers == {0} \cup LookupLatencies
PostAnswers == {0} \cup PostLatencies
ListAnswersAfter == {0} \cup ListLatencies
WriteAnswers == {0} \cup WriteLatencies
SelectAnswers == {0} \cup SelectLatencies

Late(l) == IF l > 0 THEN 1 ELSE 0

\* one more late answer is within the bound
Within(l) == late + Late(l) <= MaxLate

\* call t awaits something that is answered after l
Await(t, l) ==
  /\ late' = late + Late(l)
  /\ wakeAt' = [wakeAt EXCEPT ![t] = now + l]

\* the step of call t awaits nothing from outside
NoAwait(l) == l = 0 /\ UNCHANGED << late, wakeAt >>

\* what call t awaits is there
Answered(t) == now >= wakeAt[t]

\* ------------------------------------------------------------ steps
\* resolve is called: it asks for the lock of its key.  Calls and file names
\* are interchangeable: the calls start in the order of their numbers, and
\* "f2" is used only once a call has used "f1".
Start(t, r) ==
  /\ UNCHANGED io
  /\ pc[t] = "idle"
  /\ \A u \in Tasks : u < t => pc[u] # "idle"
  /\ r.filename = "f2" => \E u \in Tasks : pc[u] # "idle" /\ req[u].filename = "f1"
  /\ req' = [req EXCEPT ![t] = r]
  /\ prior' = [prior EXCEPT ![t] = { u \in Tasks : pc[u] = "done" }]
  /\ behind' = [behind EXCEPT ![t] =
                  IF Held(LockKey(r)) THEN lock[LockKey(r)].holder ELSE {}]
  /\ pc' = [pc EXCEPT ![t] = "waitLock"]
  /\ UNCHANGED << now, wakeAt, attempt, md, cachedLink, result, lock, cache,
                  adds, lists, fresh, stored, landing, late >>

\* withLock grants the key once no live holder has it.  The wait it allows
\* (30 s, or 120 s for a call that may wait) is longer than any wait of these
\* calls, a key being held for at most LOCK_TTL per call ahead, so giving up
\* the wait is not a step here.
Acquire(t) ==
  /\ UNCHANGED io
  /\ pc[t] = "waitLock"
  /\ ~Held(LockKey(req[t]))
  /\ lock' = [lock EXCEPT ![LockKey(req[t])] =
                [ holder |-> {t}, expiry |-> now + LOCK_TTL ]]
  /\ pc' = [pc EXCEPT ![t] = "locked"]
  /\ UNCHANGED << now, req, wakeAt, attempt, md, cachedLink, result, cache,
                  adds, lists, prior, fresh, behind, stored, landing, late >>

\* addMagnet or listMagnets, called from outside resolve, returns v or throws
\* it: no lock is involved
Return(t, v) ==
  /\ result' = [result EXCEPT ![t] = v]
  /\ pc' = [pc EXCEPT ![t] = "done"]

\* what addMagnet returns: the torrent it found in the listing
Download(d) == [ kind |-> "download", download |-> d ]

\* what listMagnets returns
Downloads(list) == [ kind |-> "downloads", list |-> list ]

\* addMagnet is called from outside resolve, with no lock and no lookup of
\* the cache: it checks the hash and sends POST /torrents/add, answered
\* after l
AddMagnetCalled(t, r, l) ==
  /\ UNCHANGED io
  /\ pc[t] = "idle"
  /\ \A u \in Tasks : u < t => pc[u] # "idle"
  /\ req' = [req EXCEPT ![t] = r]
  /\ IF extractHashFromMagnet(Magnet(r)) = << >>
     THEN /\ Return(t, Thrown("BAD_REQUEST"))
          /\ NoAwait(l)
          /\ UNCHANGED adds
     ELSE /\ adds' = [adds EXCEPT ![t] = @ + 1]
          /\ pc' = [pc EXCEPT ![t] = "posting"]
          /\ Await(t, l)
          /\ UNCHANGED result
  /\ UNCHANGED << now, attempt, md, cachedLink, lock, cache, lists, prior,
                  fresh, behind, stored, landing >>

\* listMagnets is called from outside resolve: it sends GET /torrents,
\* answered after l
ListMagnetsCalled(t, l) ==
  /\ UNCHANGED io
  /\ pc[t] = "idle"
  /\ \A u \in Tasks : u < t => pc[u] # "idle"
  /\ req' = [req EXCEPT ![t] = ListMagnetsRequest]
  /\ lists' = [lists EXCEPT ![t] = @ + 1]
  /\ pc' = [pc EXCEPT ![t] = "listing"]
  /\ Await(t, l)
  /\ UNCHANGED << now, attempt, md, cachedLink, result, lock, cache, adds,
                  prior, fresh, behind, stored, landing >>

\* Finish gone wrong: resolve takes the key, awaits _resolve and gives the
\* key back after it, with nothing to catch an error: what _resolve throws
\* leaves resolve at once, the key not given back
FinishThrowSkipsRelease(t, v) ==
  /\ result' = [result EXCEPT ![t] = v]
  /\ pc' = [pc EXCEPT ![t] = IF v.kind = "error" THEN "done" ELSE "release"]

\* an exit of _resolve, which returns v or throws it.  resolve runs the whole
\* of _resolve as the section it hands to withLock, so whatever ends
\* _resolve, a value or an error, ends the section and comes back to withLock
Finish(t, v) ==
  /\ result' = [result EXCEPT ![t] = v]
  /\ pc' = [pc EXCEPT ![t] = "release"]

\* _resolve up to its first await: the type check, the cache key, and the
\* lookup of the cache, which is answered after l
CacheLookup(t, l) ==
  /\ UNCHANGED io
  /\ pc[t] = "locked"
  /\ IF req[t].type = "usenet"
     THEN /\ Finish(t, Thrown("NOT_IMPLEMENTED"))
          /\ NoAwait(l)
     ELSE /\ pc' = [pc EXCEPT ![t] = "lookup"]
          /\ Await(t, l)
          /\ UNCHANGED result
  /\ UNCHANGED << now, req, attempt, md, cachedLink, lock, cache, adds, lists,
                  prior, fresh, behind, stored, landing >>

\* NegativeHitReturns gone wrong: a negative entry ends every call
NegativeHitReturnsAlways(r) == TRUE

\* a negative entry ends the call when waiting is not permitted
NegativeHitReturns(r) == ~r.cacheAndPlay

\* RequestFailed gone wrong: a refused request is taken for "not ready"
RequestFailedSwallowed == NotReady

\* what torrserverRequest throws when fetch fails or the answer is not 2xx
RequestFailed == Thrown("INTERNAL_SERVER_ERROR")

\* the lookup is answered with what the cache holds then: _resolve uses the
\* cached link, or calls addMagnet, which checks the hash and sends
\* POST /torrents/add, answered after l
CacheCheck(t, l) ==
  LET link == CacheGet(CacheKey(req[t])) IN
  /\ UNCHANGED io
  /\ pc[t] = "lookup"
  /\ Answered(t)
  /\ fresh' = [fresh EXCEPT ![t] =
                 { u \in prior[t] : now < stored[u].expiry }]
  /\ cachedLink' = [cachedLink EXCEPT ![t] = link]
  /\ IF link # Undefined /\ link = Null /\ NegativeHitReturns(req[t])
     THEN /\ Finish(t, NotReady)
          /\ NoAwait(l)
          /\ UNCHANGED adds
     ELSE IF link # Undefined /\ link # Null
     THEN /\ Finish(t, link)
          /\ NoAwait(l)
          /\ UNCHANGED adds
     ELSE IF extractHashFromMagnet(Magnet(req[t])) = << >>
     THEN /\ Finish(t, Thrown("BAD_REQUEST"))
          /\ NoAwait(l)
          /\ UNCHANGED adds
     ELSE /\ adds' = [adds EXCEPT ![t] = @ + 1]
          /\ pc' = [pc EXCEPT ![t] = "posting"]
          /\ Await(t, l)
          /\ UNCHANGED result
  /\ UNCHANGED << now, req, attempt, md, lock, cache, lists, prior, behind,
                  stored, landing >>

\* the POST is answered, 2xx or not: addMagnet starts its setTimeout, or
\* throws what torrserverRequest throws
AddPost(t) ==
  /\ UNCHANGED io
  /\ pc[t] = "posting"
  /\ Answered(t)
  /\ \E ok \in BOOLEAN :
       IF ok
       THEN /\ pc' = [pc EXCEPT ![t] = "addDelay"]
            /\ wakeAt' = [wakeAt EXCEPT ![t] = now + TORRSERVER_ADD_DELAY_MS]
            /\ UNCHANGED result
       ELSE /\ IF req[t].method = "resolve"
               THEN Finish(t, RequestFailed)
               ELSE Return(t, RequestFailed)
            /\ UNCHANGED wakeAt
  /\ UNCHANGED << now, req, attempt, md, cachedLink, lock, cache, adds, lists,
                  prior, fresh, behind, stored, landing, late >>

\* the setTimeout of addMagnet is over: addMagnet sends its listing, which
\* is answered after l
AddListSent(t, l) ==
  /\ UNCHANGED io
  /\ pc[t] = "addDelay"
  /\ Answered(t)
  /\ lists' = [lists EXCEPT ![t] = @ + 1]
  /\ pc' = [pc EXCEPT ![t] = "listing"]
  /\ Await(t, l)
  /\ UNCHANGED << now, req, attempt, md, cachedLink, result, lock, cache,
                  adds, prior, fresh, behind, stored, landing >>

\* NoMatchingFile gone wrong: no file to play is taken for "not ready"
NoMatchingFileAsNotReady == NotReady

\* what _resolve throws when the torrent has no files or none is selected
NoMatchingFile == Thrown("NO_MATCHING_FILE")

\* the URL _resolve builds for the ready torrent m
BuiltLink(r, m) == Url(StreamUrl(r, m.files[selectFile(m.files, r)]))

\* the marker "not ready" written to the key k of the cache c
NegativeWrite(c, k) == CacheSet(c, k, Null, NEGATIVE_TTL)

\* a write of call t reaches the cache: the entry of its key is replaced,
\* by the marker with the TTL of the marker, or by the URL with the TTL of
\* the playback links
WriteApplied(t, v) ==
  /\ cache' = IF v = Null
              THEN NegativeWrite(cache, CacheKey(req[t]))
              ELSE CacheSet(cache, CacheKey(req[t]), v, PLAYBACK_LINK_CACHE_TTL)
  /\ stored' = [stored EXCEPT ![t] =
                  [ val |-> v,
                    expiry |-> now + Seconds(IF v = Null THEN NEGATIVE_TTL
                                             ELSE PLAYBACK_LINK_CACHE_TTL) ]]

\* call t issues the write of v, which reaches the cache after d
WriteIssued(t, v, d) ==
  IF d = 0
  THEN /\ WriteApplied(t, v)
       /\ UNCHANGED landing
  ELSE /\ landing' = [landing EXCEPT ![t] =
                        @ \cup { [ at |-> now + d, val |-> v ] }]
       /\ UNCHANGED << cache, stored >>

\* _resolve writes the marker and does not await the write: the marker is in
\* the cache at once (l = 0), or after l, whatever the call does meanwhile
NegativeWriteIssued(t, l) ==
  /\ late' = late + Late(l)
  /\ WriteIssued(t, Null, l)

\* a write on its way reaches the cache
WriteLands(t, w) ==
  /\ UNCHANGED io
  /\ w \in landing[t]
  /\ now >= w.at
  /\ WriteApplied(t, w.val)
  /\ landing' = [landing EXCEPT ![t] = @ \ {w}]
  /\ UNCHANGED << now, pc, req, wakeAt, attempt, md, cachedLink, result, lock,
                  adds, lists, prior, fresh, behind, late >>

\* _resolve with the ready torrent m: without files it throws; otherwise it
\* calls the file selector, which answers after l
Select(t, m, l) ==
  IF Len(m.files) = 0
  THEN /\ Finish(t, NoMatchingFile)
       /\ NoAwait(l)
  ELSE /\ pc' = [pc EXCEPT ![t] = "selecting"]
       /\ Await(t, l)
       /\ UNCHANGED result

\* the selector has answered: with no file selected _resolve throws;
\* otherwise it builds the URL and writes it to the cache, a write that
\* reaches the cache after d and is answered after l
Complete(t, l, d) ==
  LET r == req[t]
      m == md[t]
  IN /\ UNCHANGED io
     /\ pc[t] = "selecting"
     /\ Answered(t)
     /\ IF selectFile(m.files, r) = 0
        THEN /\ Finish(t, NoMatchingFile)
             /\ NoAwait(l)
             /\ d = 0
             /\ UNCHANGED << cache, stored, landing >>
        ELSE /\ d <= l
             /\ WriteIssued(t, BuiltLink(r, m), d)
             /\ pc' = [pc EXCEPT ![t] = "storing"]
             /\ Await(t, l)
             /\ UNCHANGED result
     /\ UNCHANGED << now, req, attempt, md, cachedLink, lock, adds, lists,
                     prior, fresh, behind >>

\* the write of the URL is answered, the URL being in the cache: _resolve
\* returns the URL
Stored(t) ==
  /\ UNCHANGED io
  /\ pc[t] = "storing"
  /\ Answered(t)
  /\ \A w \in landing[t] : w.val = Null
  /\ Finish(t, BuiltLink(req[t], md[t]))
  /\ UNCHANGED << now, req, wakeAt, attempt, md, cachedLink, lock, cache,
                  adds, lists, prior, fresh, behind, stored, landing, late >>

\* ReturnsAfterAdd gone wrong: the call polls whether or not it may wait
ReturnsAfterAddNever(r) == FALSE

\* after addMagnet reported a torrent that is not ready, the call returns
\* when waiting is not permitted
ReturnsAfterAdd(r) == ~r.cacheAndPlay

\* ExhaustedResult gone wrong: running out of polls is an error
ExhaustedThrows == Thrown("NOT_READY")

\* what _resolve gives once the polls are exhausted
ExhaustedResult == NotReady

\* TorrentMissing gone wrong: add succeeds without the torrent being listed
TorrentMissingTolerated == NotReady

\* what addMagnet throws when its listing does not hold the torrent
TorrentMissing == Thrown("INTERNAL_SERVER_ERROR")

\* the listing of addMagnet is answered: the search of the torrent, and
\* _resolve up to its next await (l: the latency of the write it issues)
AddList(t, l) ==
  /\ UNCHANGED io
  /\ pc[t] = "listing"
  /\ req[t].method = "resolve"
  /\ Answered(t)
  /\ \E ok \in BOOLEAN, answer \in ListAnswers :
       LET r == req[t]
           hash == extractHashFromMagnet(Magnet(r))
           torrents == listMagnets(ok, answer)
       IN IF ~Listed(torrents, hash)
          THEN /\ Finish(t, TorrentMissing)
               /\ NoAwait(l)
               /\ UNCHANGED << md, cache, stored, attempt, landing >>
          ELSE /\ md' = [md EXCEPT ![t] = torrents[hash]]
               /\ IF torrents[hash].status # "cached"
                  THEN /\ NegativeWriteIssued(t, l)
                       /\ IF ReturnsAfterAdd(r)
                          THEN /\ Finish(t, NotReady)
                               /\ UNCHANGED << attempt, wakeAt >>
                          ELSE /\ pc' = [pc EXCEPT ![t] = "pollDelay"]
                               /\ attempt' = [attempt EXCEPT ![t] = 0]
                               /\ wakeAt' = [wakeAt EXCEPT ![t] =
                                               now + TORRSERVER_POLL_INTERVAL_MS]
                               /\ UNCHANGED result
                  ELSE /\ Select(t, torrents[hash], l)
                       /\ UNCHANGED << attempt, landing, cache, stored >>
  /\ UNCHANGED << now, req, cachedLink, lock, adds, lists, prior, fresh,
                  behind >>

\* the listing of an addMagnet called from outside resolve is answered:
\* addMagnet returns the torrent of its hash, or throws when it is not listed
AddMagnetReturns(t) ==
  /\ UNCHANGED io
  /\ pc[t] = "listing"
  /\ req[t].method = "addMagnet"
  /\ Answered(t)
  /\ \E ok \in BOOLEAN, answer \in ListAnswers :
       LET hash == extractHashFromMagnet(Magnet(req[t]))
           torrents == listMagnets(ok, answer)
       IN IF ~Listed(torrents, hash)
          THEN Return(t, TorrentMissing)
          ELSE Return(t, Download(torrents[hash]))
  /\ UNCHANGED << now, req, wakeAt, attempt, md, cachedLink, lock, cache,
                  adds, lists, prior, fresh, behind, stored, landing, late >>

\* the listing of a listMagnets called from outside resolve is answered:
\* listMagnets returns the torrents, none when the request failed
ListMagnetsReturns(t) ==
  /\ UNCHANGED io
  /\ pc[t] = "listing"
  /\ req[t].method = "listMagnets"
  /\ Answered(t)
  /\ \E ok \in BOOLEAN, answer \in ListAnswers :
       Return(t, Downloads(listMagnets(ok, answer)))
  /\ UNCHANGED << now, req, wakeAt, attempt, md, cachedLink, lock, cache,
                  adds, lists, prior, fresh, behind, stored, landing, late >>

\* MoreAttempts gone wrong: the loop runs once more
MoreAttemptsOffByOne(i) == i <= TORRSERVER_MAX_POLL_ATTEMPTS

\* the condition of the polling loop
MoreAttempts(i) == i < TORRSERVER_MAX_POLL_ATTEMPTS

\* the setTimeout of an iteration of the polling loop is over: the listing
\* is sent, and is answered after l
PollSent(t, l) ==
  /\ UNCHANGED io
  /\ pc[t] = "pollDelay"
  /\ Answered(t)
  /\ lists' = [lists EXCEPT ![t] = @ + 1]
  /\ pc' = [pc EXCEPT ![t] = "polling"]
  /\ Await(t, l)
  /\ UNCHANGED << now, req, attempt, md, cachedLink, result, lock, cache,
                  adds, prior, fresh, behind, stored, landing >>

\* the listing of an iteration is answered: the rest of the iteration, and
\* what follows the loop when the iteration ends it
Poll(t, l) ==
  /\ UNCHANGED io
  /\ pc[t] = "polling"
  /\ Answered(t)
  /\ \E ok \in BOOLEAN, answer \in ListAnswers :
       LET hash == req[t].hash
           list == listMagnets(ok, answer)
       IN IF Listed(list, hash) /\ list[hash].status = "cached"
          THEN /\ md' = [md EXCEPT ![t] = list[hash]]
               /\ Select(t, list[hash], l)
               /\ UNCHANGED << attempt, cache, stored >>
          ELSE /\ attempt' = [attempt EXCEPT ![t] = @ + 1]
               /\ late' = late /\ l = 0
               /\ IF MoreAttempts(attempt[t] + 1)
                  THEN /\ pc' = [pc EXCEPT ![t] = "pollDelay"]
                       /\ wakeAt' = [wakeAt EXCEPT ![t] =
                                       now + TORRSERVER_POLL_INTERVAL_MS]
                       /\ UNCHANGED result
                  ELSE /\ Finish(t, ExhaustedResult)
                       /\ UNCHANGED wakeAt
               /\ UNCHANGED << md, cache, stored >>
  /\ UNCHANGED << now, req, cachedLink, lock, adds, lists, prior, fresh,
                  behind, landing >>

\* withLock releases the key, if this call still holds it, and returns or
\* rethrows
Release(t) ==
  /\ UNCHANGED io
  /\ pc[t] = "release"
  /\ lock' = IF lock[LockKey(req[t])].holder = {t}
             THEN [lock EXCEPT ![LockKey(req[t])] = FreeLock]
             ELSE lock
  /\ pc' = [pc EXCEPT ![t] = "done"]
  /\ UNCHANGED << now, req, wakeAt, attempt, md, cachedLink, result, cache,
                  adds, lists, prior, fresh, behind, stored, landing, late >>

\* ------------------------------------------------------------ time
\* the call waits for a timer or for an answer
Sleeping(t) ==
  pc[t] \in {"lookup", "posting", "addDelay", "listing", "selecting",
             "storing", "pollDelay", "polling"}

\* a call that can take a step now
Runnable(t) ==
  \/ pc[t] \in {"locked", "release"}
  \/ pc[t] = "waitLock" /\ ~Held(LockKey(req[t]))
  \/ Sleeping(t) /\ Answered(t)
  \/ \E w \in landing[t] : now >= w.at

\* the instants at which something is due
Deadlines ==
  { wakeAt[t] : t \in { u \in Tasks : Sleeping(u) } }
    \cup { w.at : w \in UNION { landing[t] : t \in Tasks } }
    \cup { lock[k].expiry : k \in { j \in LockKeys : Held(j) } }
    \cup { cache[k].expiry : k \in { j \in CacheKeys : now < cache[j].expiry } }

\* time passes to the next instant at which something is due
Tick ==
  /\ UNCHANGED io
  /\ \A t \in Tasks : ~Runnable(t)
  /\ Deadlines # {}
  /\ now' = CHOOSE d \in Deadlines : \A e \in Deadlines : d <= e
  /\ UNCHANGED << pc, req, wakeAt, attempt, md, cachedLink, result, lock,
                  cache, adds, lists, prior, fresh, behind, stored, landing,
                  late >>

\* time passes, up to the Horizon
TickShared == Tick /\ now' <= Seconds(Horizon)

\* NumTasks calls of resolve, for any requests, watched up to the Horizon
Next ==
  \/ \E t \in Tasks, r \in Requests : Start(t, r)
  \/ \E t \in Tasks, r \in AddMagnetRequests, l \in PostAnswers :
       Within(l) /\ AddMagnetCalled(t, r, l)
  \/ \E t \in Tasks, l \in ListAnswersAfter : Within(l) /\ ListMagnetsCalled(t, l)
  \/ \E t \in Tasks : AddMagnetReturns(t)
  \/ \E t \in Tasks : ListMagnetsReturns(t)
  \/ \E t \in Tasks : Acquire(t)
  \/ \E t \in Tasks, l \in LookupAnswers : Within(l) /\ CacheLookup(t, l)
  \/ \E t \in Tasks, l \in PostAnswers : Within(l) /\ CacheCheck(t, l)
  \/ \E t \in Tasks : AddPost(t)
  \/ \E t \in Tasks, l \in ListAnswersAfter : Within(l) /\ AddListSent(t, l)
  \/ \E t \in Tasks, l \in WriteAnswers \cup SelectAnswers :
       Within(l) /\ AddList(t, l)
  \/ \E t \in Tasks, l \in WriteAnswers : \E d \in {0, l} :
       Within(l) /\ Complete(t, l, d)
  \/ \E t \in Tasks : Stored(t)
  \/ \E t \in Tasks : \E w \in landing[t] : WriteLands(t, w)
  \/ \E t \in Tasks, l \in ListAnswersAfter : Within(l) /\ PollSent(t, l)
  \/ \E t \in Tasks, l \in SelectAnswers : Within(l) /\ Poll(t, l)
  \/ \E t \in Tasks : Release(t)
  \/ TickShared

Spec == Init /\ [][Next]_vars

\* Calls for one torrent, with and without an explicit file index, watched
\* up to the Horizon.
IndexRequests ==
  [ method : {"resolve"}, type : {"torrent"}, hash : {LowerHash}, metadata : Metas,
    sources : {<< >>}, index : { << >>, <<0>>, <<1>> }, filename : {"f1"}, cacheAndPlay : BOOLEAN,
    clientIp : ClientIps, token : Tokens ]

NextIndex ==
  \/ \E t \in Tasks, r \in IndexRequests : Start(t, r)
  \/ \E t \in Tasks : Acquire(t)
  \/ \E t \in Tasks, l \in LookupAnswers : Within(l) /\ CacheLookup(t, l)
  \/ \E t \in Tasks, l \in PostAnswers : Within(l) /\ CacheCheck(t, l)
  \/ \E t \in Tasks : AddPost(t)
  \/ \E t \in Tasks, l \in ListAnswersAfter : Within(l) /\ AddListSent(t, l)
  \/ \E t \in Tasks, l \in WriteAnswers \cup SelectAnswers :
       Within(l) /\ AddList(t, l)
  \/ \E t \in Tasks, l \in WriteAnswers : \E d \in {0, l} :
       Within(l) /\ Complete(t, l, d)
  \/ \E t \in Tasks : Stored(t)
  \/ \E t \in Tasks : \E w \in landing[t] : WriteLands(t, w)
  \/ \E t \in Tasks, l \in ListAnswersAfter : Within(l) /\ PollSent(t, l)
  \/ \E t \in Tasks, l \in SelectAnswers : Within(l) /\ Poll(t, l)
  \/ \E t \in Tasks : Release(t)
  \/ TickShared

SpecIndex == Init /\ [][NextIndex]_vars

\* One call of resolve, for any request, watched to its end.  Every await of
\* the call is answered: the timers fire, the cache answers, the gateway
\* answers or the request fails, the lock is granted once it is free.  A
\* step that can be taken is taken.
OneCall == {1}
InitOne == InitOf(OneCall) /\ io = NoIo

NextOne ==
  \/ \E t \in Tasks, r \in Requests : Start(t, r)
  \/ \E t \in Tasks : Acquire(t)
  \/ \E t \in Tasks, l \in LookupAnswers : Within(l) /\ CacheLookup(t, l)
  \/ \E t \in Tasks, l \in PostAnswers : Within(l) /\ CacheCheck(t, l)
  \/ \E t \in Tasks : AddPost(t)
  \/ \E t \in Tasks, l \in ListAnswersAfter : Within(l) /\ AddListSent(t, l)
  \/ \E t \in Tasks, l \in WriteAnswers \cup SelectAnswers :
       Within(l) /\ AddList(t, l)
  \/ \E t \in Tasks, l \in WriteAnswers : \E d \in {0, l} :
       Within(l) /\ Complete(t, l, d)
  \/ \E t \in Tasks : Stored(t)
  \/ \E t \in Tasks : \E w \in landing[t] : WriteLands(t, w)
  \/ \E t \in Tasks, l \in ListAnswersAfter : Within(l) /\ PollSent(t, l)
  \/ \E t \in Tasks, l \in SelectAnswers : Within(l) /\ Poll(t, l)
  \/ \E t \in Tasks : Release(t)
  \/ Tick

SpecOne == InitOne /\ [][NextOne]_vars /\ WF_vars(NextOne)

\* Two calls of resolve watched to their ends, however they overlap: for one
\* torrent and one file, waiting or not, or for an unsupported type or a
\* magnet without an info hash.
ExitRequests ==
  { r \in Requests : r.filename = "f1" /\ r.hash \in { LowerHash, ShortHash } }

NextExits ==
  \/ \E t \in Tasks, r \in ExitRequests : Start(t, r)
  \/ \E t \in Tasks : Acquire(t)
  \/ \E t \in Tasks, l \in LookupAnswers : Within(l) /\ CacheLookup(t, l)
  \/ \E t \in Tasks, l \in PostAnswers : Within(l) /\ CacheCheck(t, l)
  \/ \E t \in Tasks : AddPost(t)
  \/ \E t \in Tasks, l \in ListAnswersAfter : Within(l) /\ AddListSent(t, l)
  \/ \E t \in Tasks, l \in WriteAnswers \cup SelectAnswers :
       Within(l) /\ AddList(t, l)
  \/ \E t \in Tasks, l \in WriteAnswers : \E d \in {0, l} :
       Within(l) /\ Complete(t, l, d)
  \/ \E t \in Tasks : Stored(t)
  \/ \E t \in Tasks : \E w \in landing[t] : WriteLands(t, w)
  \/ \E t \in Tasks, l \in ListAnswersAfter : Within(l) /\ PollSent(t, l)
  \/ \E t \in Tasks, l \in SelectAnswers : Within(l) /\ Poll(t, l)
  \/ \E t \in Tasks : Release(t)
  \/ Tick

SpecExits == Init /\ [][NextExits]_vars

\* ------------------------------------------------- magnets, on their own
\* every info hash over the digits used here
InfoHashes == [ 1..HashLen -> HexDigits ]

\* trackers: a URL with a colon, and one that spells an info hash of its own
PlainTracker == << "u", ":", "1" >>
HashTracker == Btih \o [ i \in 1..HashLen |-> "b" ]
TrackerLists ==
  { << >>, << PlainTracker >>, << HashTracker >>,
    << PlainTracker, HashTracker >>, << HashTracker, PlainTracker >> }

\* a hash and its sources, from which nothing has been built yet
MagnetInputs ==
  [ op : {"magnet"}, stage : {"given"}, hash : InfoHashes, sources : TrackerLists,
    magnet : {<< >>}, link : {<< >>}, fromMagnet : {<< >>}, fromLink : {<< >>} ]

InitMagnet == InitOf({}) /\ io \in MagnetInputs

\* the magnet is built, as _resolve and as the converter build it
BuildMagnet ==
  /\ io.op = "magnet" /\ io.stage = "given"
  /\ io' = [io EXCEPT !.stage = "built",
                       !.magnet = ResolveMagnet(io.hash, io.sources),
                       !.link = buildMagnetLink(io.hash, io.sources)]
  /\ UNCHANGED resolveVars

\* addMagnet extracts the hash from either magnet
ExtractHash ==
  /\ io.op = "magnet" /\ io.stage = "built"
  /\ io' = [io EXCEPT !.stage = "extracted",
                       !.fromMagnet = extractHashFromMagnet(io.magnet),
                       !.fromLink = extractHashFromMagnet(io.link)]
  /\ UNCHANGED resolveVars

NextMagnet == BuildMagnet \/ ExtractHash

SpecMagnet == InitMagnet /\ [][NextMagnet]_vars

\* -------------------------------------------- playback URLs, on their own
\* String.trim on the characters used here
RECURSIVE trimStart(_)
trimStart(str) ==
  IF str # << >> /\ Head(str) = " " THEN trimStart(Tail(str)) ELSE str

RECURSIVE trimEnd(_)
trimEnd(str) ==
  IF str # << >> /\ str[Len(str)] = " "
  THEN trimEnd(SubSeq(str, 1, Len(str) - 1))
  ELSE str

trim(str) == trimEnd(trimStart(str))

\* String.includes(':')
includesColon(str) == \E i \in 1..Len(str) : str[i] = ":"

\* String.indexOf(':'), counted from 1 (0: none)
indexOfColon(str) == MinPos({ i \in 1..Len(str) : str[i] = ":" })

\* String.split(':')
RECURSIVE splitColon(_)
splitColon(str) ==
  IF ~includesColon(str) THEN << str >>
  ELSE << SubSeq(str, 1, indexOfColon(str) - 1) >>
         \o splitColon(SubSeq(str, indexOfColon(str) + 1, Len(str)))

\* Array.join(':')
RECURSIVE joinColon(_)
joinColon(parts) ==
  IF parts = << >> THEN << >>
  ELSE IF Len(parts) = 1 THEN Head(parts)
  ELSE Head(parts) \o << ":" >> \o joinColon(Tail(parts))

\* the converter's injection of the credential into the URL it has built:
\* user:pass after "://", or apikey=<key> at the end of the query
InjectAuth(url, auth) ==
  LET trimmedAuth == trim(auth)
      parts == splitColon(trimmedAuth)
  IN IF auth = << >> THEN url
     ELSE IF includesColon(trimmedAuth) /\ trimmedAuth # << >>
     THEN [url EXCEPT !.userinfo = << Head(parts), joinColon(Tail(parts)) >>]
     ELSE IF trimmedAuth # << >>
     THEN [url EXCEPT !.query = @ \o << << "apikey", trimmedAuth >> >>]
     ELSE url

\* addAuthToStreamUrl of the converter's previous generation: username and
\* password of the URL object, or the apikey parameter
addAuthToStreamUrl(url, auth) ==
  LET trimmedAuth == trim(auth)
      colonIndex == indexOfColon(trimmedAuth)
  IN IF auth = << >> \/ trimmedAuth = << >> THEN url
     ELSE IF includesColon(trimmedAuth)
     THEN [url EXCEPT !.userinfo =
             << SubSeq(trimmedAuth, 1, colonIndex - 1),
                SubSeq(trimmedAuth, colonIndex + 1, Len(trimmedAuth)) >>]
     ELSE [url EXCEPT !.query = @ \o << << "apikey", trimmedAuth >> >>]

\* An optional value is a sequence of at most one element: << >> is
\* undefined.

\* the empty text, as a URL and as a string
EmptyUrl == [ userinfo |-> << >>, path |-> << >>, query |-> << >> ]
EmptyString == ""

\* what JavaScript takes for true of an optional text: defined and not empty
Truthy(x, empty) == x # << >> /\ x[1] # empty

\* the index parameter convert sets: fileIdx + 1, or 1 without a fileIdx
ConvertIndex(fileIdx) == IF fileIdx = << >> THEN 1 ELSE fileIdx[1] + 1

\* the URL convert builds for a p2p stream, before the credential
ConvertUrl(infoHash, sources, fileIdx) ==
  [ userinfo |-> << >>,
    path |-> << "stream" >>,
    query |-> << << "link", buildMagnetLink(infoHash, sources) >>,
                 << "play", "1" >>, << "save", "true" >>,
                 << "index", ConvertIndex(fileIdx) >> >> ]

\* the URL the oldest generation of convert builds for a p2p stream: the
\* file name of the stream, or video.mkv, in the path; the link, as it is
\* made by the generation's own buildMagnetLink, trackers not encoded; the
\* index only when the torrent has a fileIdx, and as it is; no credential
ConvertOldestUrl(infoHash, sources, fileIdx, filename) ==
  [ userinfo |-> << >>,
    path |-> << "stream", IF Truthy(filename, EmptyString)
                          THEN filename[1]
                          ELSE "video.mkv" >>,
    query |-> << << "link", buildMagnetLinkOldest(infoHash, sources) >> >>
                \o IF fileIdx # << >>
                   THEN << << "index", fileIdx[1] >> >>
                   ELSE << >> ]

\* who builds playback URLs: convert, convert of the previous generation,
\* convert of the oldest generation, and _resolve
Builders == { "convert", "convertBefore", "convertOldest", "resolve" }

\* the playback URL each builder gives for the torrent LowerHash, the
\* file index fileIdx and the configured credential auth
BuiltUrl(builder, auth, fileIdx) ==
  CASE builder = "convert" ->
         InjectAuth(ConvertUrl(LowerHash, << >>, fileIdx), auth)
    [] builder = "convertBefore" ->
         addAuthToStreamUrl(ConvertUrl(LowerHash, << >>, fileIdx), auth)
    [] builder = "convertOldest" ->
         ConvertOldestUrl(LowerHash, << >>, fileIdx, << >>)
    [] builder = "resolve" ->
         StreamUrl([ hash |-> LowerHash, sources |-> << >> ],
                   File(ConvertIndex(fileIdx) - 1, "e1.mkv", "s1e1", 5))

\* credentials: every text of at most AuthLen of these characters
AuthChars == { "a", ":", "@", " " }
Credentials == UNION { [ 1..n -> AuthChars ] : n \in 0..AuthLen }

UrlInputs ==
  [ op : {"url"}, stage : {"given"}, builder : Builders, auth : Credentials,
    fileIdx : { << >>, <<0>>, <<1>> }, url : {<< >>} ]

InitUrl == InitOf({}) /\ io \in UrlInputs

BuildUrl ==
  /\ io.op = "url" /\ io.stage = "given"
  /\ io' = [io EXCEPT !.stage = "built",
                       !.url = BuiltUrl(io.builder, io.auth, io.fileIdx)]
  /\ UNCHANGED resolveVars

NextUrl == BuildUrl

SpecUrl == InitUrl /\ [][NextUrl]_vars

\* ------------------------------------------ gateway requests, on their own
\* the request torrserverRequest hands to fetch: the endpoint as its path,
\* no query, and the credential, when there is one, as it is configured
\* after the word Basic
torrserverRequest(endpoint, method, auth) ==
  [ method |-> method,
    path |-> endpoint,
    query |-> << >>,
    contentType |-> "application/json",
    authorization |-> IF auth # << >> THEN << "Basic", auth >> ELSE << >> ]

\* the two requests of the client: listMagnets and addMagnet
ClientCalls ==
  { [ endpoint |-> "/torrents", method |-> "GET" ],
    [ endpoint |-> "/torrents/add", method |-> "POST" ] }

RequestInputs ==
  [ op : {"request"}, stage : {"given"}, call : ClientCalls, auth : Credentials,
    request : {<< >>} ]

InitRequest == InitOf({}) /\ io \in RequestInputs

SendRequest ==
  /\ io.op = "request" /\ io.stage = "given"
  /\ io' = [io EXCEPT !.stage = "sent",
                       !.request = torrserverRequest(io.call.endpoint,
                                                     io.call.method, io.auth)]
  /\ UNCHANGED resolveVars

NextRequest == SendRequest

SpecRequest == InitRequest /\ [][NextRequest]_vars

\* ------------------------------------------------- convert, on its own
\* A URL is given by its parts, as the URLs convert builds are.

TORRSERVER_SERVICE == "torrserver"

\* TorrServerConfig.parse: the URL has to be one; the result has the URL
\* trimmed and without trailing slashes
ValidUrls == { "http://ts" }
ParseFails == [ ok |-> FALSE, torrserverUrl |-> << >>, torrserverAuth |-> << >> ]
TorrServerConfigParse(credentials) ==
  IF credentials.torrserverUrl # << >>
       /\ credentials.torrserverUrl[1] \in ValidUrls
  THEN [ ok |-> TRUE,
         torrserverUrl |-> credentials.torrserverUrl,
         torrserverAuth |-> credentials.torrserverAuth ]
  ELSE ParseFails

\* services.find: the first service of the gateway that is not disabled
FindService(services) ==
  MinPos({ i \in 1..Len(services) :
             /\ services[i].id = TORRSERVER_SERVICE
             /\ services[i].enabled # << FALSE >> })

\* the converter as constructed, before initializeTorrServer
NoTorrServer ==
  [ hasTorrServer |-> FALSE, torrServerUrl |-> << >>, torrServerAuth |-> << >> ]

\* initializeTorrServer: the fields of the converter for the user's services
initializeTorrServer(services) ==
  LET found == FindService(services)
      config == TorrServerConfigParse(services[found].credentials)
  IN IF found = 0 THEN NoTorrServer
     ELSE IF ~config.ok THEN NoTorrServer
     ELSE [ hasTorrServer |-> TRUE,
            torrServerUrl |-> config.torrserverUrl,
            torrServerAuth |-> config.torrserverAuth ]

\* Convertible gone wrong: a stream that has a url is converted too
ConvertibleWhateverUrl(stream) ==
  /\ stream.type = "p2p"
  /\ stream.torrent # << >> /\ stream.torrent[1].infoHash # << >>
  /\ ~Truthy(stream.externalUrl, EmptyUrl)

\* the test of convert: a p2p stream with an info hash and without a url
Convertible(stream) ==
  /\ stream.type = "p2p"
  /\ stream.torrent # << >> /\ stream.torrent[1].infoHash # << >>
  /\ ~Truthy(stream.url, EmptyUrl)
  /\ ~Truthy(stream.externalUrl, EmptyUrl)

\* the three generations of convert
Generations == { "convert", "convertBefore", "convertOldest" }

\* the stream the oldest generation of convert returns for a stream it
\* converts: the gateway is not said to have the torrent
ConvertedOldest(stream) ==
  LET torrent == stream.torrent[1]
  IN [stream EXCEPT !.url = << ConvertOldestUrl(torrent.infoHash, torrent.sources,
                                                torrent.fileIdx, stream.filename) >>,
                    !.type = "debrid",
                    !.service = << [ id |-> TORRSERVER_SERVICE, cached |-> FALSE ] >>]

\* the stream convert returns for a stream it converts
Converted(generation, conv, stream) ==
  LET torrent == stream.torrent[1]
      built == ConvertUrl(torrent.infoHash, torrent.sources, torrent.fileIdx)
      finalUrl == IF generation = "convert"
                  THEN InjectAuth(built, conv.torrServerAuth)
                  ELSE addAuthToStreamUrl(built, conv.torrServerAuth)
  IN IF generation = "convertOldest" THEN ConvertedOldest(stream)
     ELSE [stream EXCEPT !.url = << finalUrl >>,
                         !.type = "debrid",
                         !.service = << [ id |-> TORRSERVER_SERVICE,
                                          cached |-> TRUE ] >>]

\* convert, for the services the converter was constructed with
convert(generation, services, streams) ==
  LET conv == initializeTorrServer(services)
  IN IF ~conv.hasTorrServer \/ ~Truthy(conv.torrServerUrl, EmptyString)
     THEN streams
     ELSE [ i \in 1..Len(streams) |->
              IF Convertible(streams[i])
              THEN Converted(generation, conv, streams[i])
              ELSE streams[i] ]

\* the services of a user: none, or one service
Services ==
  [ id : { TORRSERVER_SERVICE, "other" },
    enabled : { << >>, << TRUE >>, << FALSE >> },
    credentials : [ torrserverUrl : { << >>, << "ts" >>, << "http://ts" >> },
                    torrserverAuth : { << "k" >> } ] ]
ServiceLists == { << >> } \cup { << v >> : v \in Services }

\* streams: of either type, with or without torrent, info hash, trackers,
\* url (the empty text included), externalUrl and file name
OtherUrl(name) == [ userinfo |-> << >>, path |-> << name >>, query |-> << >> ]
Torrents ==
  [ infoHash : { << >>, LowerHash }, sources : { << >>, << PlainTracker >> },
    fileIdx : { << >>, <<0>> } ]
Streams ==
  [ type : { "p2p", "http" },
    torrent : { << >> } \cup { << x >> : x \in Torrents },
    url : { << >>, << EmptyUrl >>, << OtherUrl("u") >> },
    externalUrl : { << >>, << OtherUrl("e") >> },
    filename : { << >>, << "e1.mkv" >> },
    service : { << >> } ]
StreamLists == UNION { [ 1..n -> Streams ] : n \in 0..MaxStreams }

ConvertInputs ==
  [ op : {"convert"}, stage : {"given"}, generation : Generations,
    services : ServiceLists, streams : StreamLists, returned : {<< >>} ]

InitConvert == InitOf({}) /\ io \in ConvertInputs

Convert ==
  /\ io.op = "convert" /\ io.stage = "given"
  /\ io' = [io EXCEPT !.stage = "returned",
                       !.returned = convert(io.generation, io.services, io.streams)]
  /\ UNCHANGED resolveVars

NextConvert == Convert

SpecConvert == InitConvert /\ [][NextConvert]_vars

\* ------------------------------------------------------------ claims
Done(t) == pc[t] = "done"

\* t is a call of resolve
Resolves(t) == req[t].method = "resolve"

\* resolve has its result, returned or about to be
Returned(t) == pc[t] \in {"release", "done"}

\* a call of resolve inside addMagnet: the POST is sent, the listing not yet
\* read
InAdd(t) == Resolves(t) /\ pc[t] \in {"posting", "addDelay", "listing"}

\* a call of resolve inside the section the lock is meant to protect
InCritical(t) ==
  /\ Resolves(t)
  /\ pc[t] \in {"posting", "addDelay", "listing", "pollDelay", "polling",
                "selecting", "storing"}

\* a request for a torrent by a well-formed hash
Plain(r) == r.method = "resolve" /\ r.type = "torrent" /\ r.hash \in Hashes

\* no call other than t and u has been made
OnlyCalls(t, u) == \A v \in Tasks \ {t, u} : pc[v] = "idle"

\* what a call that finds the entry v in the cache, and stops there, returns
EntryResult(v) == IF v = Null THEN NotReady ELSE v

\* u was called while t held their common key, and both have returned
Concurrent(t, u) ==
  /\ t # u /\ Done(t) /\ Done(u)
  /\ Plain(req[t]) /\ Plain(req[u])
  /\ LockKey(req[t]) = LockKey(req[u])
  /\ behind[u] = {t}

\* C1: of two concurrent calls with the same key, the first of which stored
\* a value in the cache, exactly one sends an add to the gateway, and the
\* second returns the value the first stored (NotReady for the negative
\* entry).
C1_OneAddForConcurrentCalls ==
  \A t, u \in Tasks :
    (Concurrent(t, u) /\ stored[t] # NoEntry) =>
      /\ adds[t] + adds[u] = 1
      /\ result[u] = EntryResult(stored[t].val)

\* u was called after t had returned a URL it had built itself, while the
\* entry t wrote was still alive, for the same hash, metadata and file name
\* (and on the same service); no other call has been made
InSequence(t, u) ==
  /\ t # u /\ Done(t) /\ Done(u)
  /\ t \in fresh[u]
  /\ Plain(req[t]) /\ Plain(req[u])
  /\ req[t].hash = req[u].hash /\ req[t].metadata = req[u].metadata
  /\ req[t].filename = req[u].filename
  /\ req[t].token = req[u].token /\ req[t].clientIp = req[u].clientIp
  /\ result[t].kind = "url" /\ adds[t] = 1
  /\ OnlyCalls(t, u)

\* C2: two calls in sequence for the same hash, metadata and file name, the
\* second within the positive TTL of the first, send one add in all and
\* return the same URL.
C2_SecondCallServedFromCache ==
  \A t, u \in Tasks :
    InSequence(t, u) => adds[t] + adds[u] = 1 /\ result[u] = result[t]

C2_Witness ==
  \E t, u \in Tasks :
    InSequence(t, u) /\ req[t].cacheAndPlay # req[u].cacheAndPlay /\ lists[t] > 1

\* (contentHash, requester, metadata) of a request
Triple(r) == << r.hash, r.clientIp, r.metadata >>

\* C3: at most one add of resolve is in flight per (contentHash, requester,
\* metadata), whatever the file names and the waiting flags of the calls.
C3_OneAddPerTriple ==
  \A t, u \in Tasks :
    (t # u /\ InAdd(t) /\ InAdd(u)) => Triple(req[t]) # Triple(req[u])

\* The same of the calls that ask for the same lock, which are the calls of
\* one (contentHash, metadata, file name, waiting flag, requester): at most
\* one add of theirs is in flight.
C3_OneAddPerLockKey ==
  \A t, u \in Tasks :
    (t # u /\ InAdd(t) /\ InAdd(u)) => LockKey(req[t]) # LockKey(req[u])

\* C4: for one lock key, at most one call is between the cache lookup and
\* the return of _resolve (submitting, polling, selecting, building).
C4_OneCallInCriticalSection ==
  \A t, u \in Tasks :
    (t # u /\ InCritical(t) /\ InCritical(u)) => LockKey(req[t]) # LockKey(req[u])

\* the exits of _resolve the resolution can take, as a finished call shows
\* them: the URL found in the cache
ExitCachedUrl(t) ==
  result[t].kind = "url" /\ cachedLink[t] = result[t] /\ adds[t] = 0

\* the URL built after the add, the polls and the selection
ExitBuiltUrl(t) == result[t].kind = "url" /\ adds[t] = 1 /\ stored[t] # NoEntry

\* NotReady for the negative entry found in the cache
ExitNegativeHit(t) ==
  result[t] = NotReady /\ cachedLink[t] = Null /\ adds[t] = 0

\* NotReady for a caller that does not wait
ExitNonWaiting(t) ==
  result[t] = NotReady /\ ~req[t].cacheAndPlay /\ adds[t] = 1

\* NotReady after the last poll
ExitPollsExhausted(t) ==
  /\ result[t] = NotReady /\ req[t].cacheAndPlay
  /\ attempt[t] = TORRSERVER_MAX_POLL_ATTEMPTS
  /\ lists[t] = TORRSERVER_MAX_POLL_ATTEMPTS + 1

\* an error thrown: unsupported type, add refused or failed, no file to play
ExitThrown(t, code) == result[t] = Thrown(code)

\* C5: the lock taken by resolve is released on every exit of the
\* resolution.  Every step by which _resolve returns or throws (a URL from
\* the cache or built, NotReady, an error) is a step inside the section of
\* withLock and hands the call to the release; and a call that has finished
\* has a result and does not hold its key.
C5_LockReleasedOnEveryExit ==
  /\ [][\A t \in Tasks :
          (result[t] = Pending /\ result'[t] # Pending /\ req'[t].method = "resolve")
            => (pc[t] \notin {"idle", "waitLock", "release", "done"}
                  /\ pc'[t] = "release")]_vars
  /\ [](\A t \in Tasks :
          (Resolves(t) /\ Done(t)) =>
            /\ result[t] # Pending
            /\ lock[LockKey(req[t])].holder # {t})

\* one call has left by the last poll, long after its hold of the key had
\* lapsed, and the other by an error thrown after its add; both have
\* finished and no key is held
C5_Witness ==
  \E t, u \in Tasks :
    /\ t # u /\ Done(t) /\ Done(u)
    /\ ExitPollsExhausted(t)
    /\ now >= Seconds(Horizon)
    /\ result[u].kind = "error" /\ adds[u] = 1
    /\ \A k \in LockKeys : lock[k] = FreeLock

\* C6: a positive entry is returned without any gateway call; a negative
\* entry gives NotReady without any gateway call when waiting is not
\* permitted; when waiting is permitted the negative entry is ignored and
\* add is called.
C6_CacheShortCircuit ==
  \A t \in Tasks :
    /\ cachedLink[t].kind = "url" =>
         Returned(t) /\ result[t] = cachedLink[t] /\ adds[t] = 0 /\ lists[t] = 0
    /\ (cachedLink[t] = Null /\ ~req[t].cacheAndPlay) =>
         Returned(t) /\ result[t] = NotReady /\ adds[t] = 0 /\ lists[t] = 0
    /\ (cachedLink[t] = Null /\ req[t].cacheAndPlay) =>
         adds[t] = 1

C6_Witness ==
  \E t \in Tasks :
    cachedLink[t] = Null /\ req[t].cacheAndPlay /\ adds[t] = 1 /\ Done(t)

\* C7: when waiting is not permitted and add reported a status other than
\* cached, the call returns NotReady and has made no listing but the one of
\* add.
C7_NoPollingWithoutWaiting ==
  \A t \in Tasks :
    (~req[t].cacheAndPlay /\ md[t].status \notin {"none", "cached"}) =>
      /\ Returned(t) /\ result[t] = NotReady
      /\ lists[t] = 1 /\ attempt[t] = 0

C7_Witness ==
  \E t \in Tasks :
    ~req[t].cacheAndPlay /\ md[t].status = "downloading" /\ Done(t)

\* C8: when waiting is permitted and all the polls have failed to see the
\* torrent cached, the call returns NotReady: it does not throw.
C8_ExhaustedPollsGiveNotReady ==
  \A t \in Tasks :
    (req[t].cacheAndPlay /\ attempt[t] = TORRSERVER_MAX_POLL_ATTEMPTS) =>
      Returned(t) /\ result[t] = NotReady

C8_Witness ==
  \E t \in Tasks :
    /\ req[t].cacheAndPlay /\ attempt[t] = TORRSERVER_MAX_POLL_ATTEMPTS
    /\ Done(t) /\ lists[t] = TORRSERVER_MAX_POLL_ATTEMPTS + 1

\* t was not to wait, sent its add, was told of a torrent that is not cached,
\* and has its NotReady
ToldNotCached(t) ==
  /\ Returned(t) /\ Plain(req[t]) /\ ~req[t].cacheAndPlay
  /\ adds[t] = 1 /\ md[t].status \notin {"none", "cached"}
  /\ result[t] = NotReady

\* u is a call not to wait, for the cache key of t, made after t returned;
\* it is over, and all of this within the negative TTL
LaterNonWaiting(t, u) ==
  /\ t # u /\ Done(t) /\ Done(u)
  /\ t \in prior[u]
  /\ now < Seconds(NEGATIVE_TTL)
  /\ Plain(req[u]) /\ ~req[u].cacheAndPlay
  /\ CacheKey(req[u]) = CacheKey(req[t])

\* C9: once add reports a torrent that is not cached and a call not to wait
\* returns NotReady, any later call not to wait for the same key within the
\* negative TTL returns NotReady and sends no add.
C9_LaterCallsGetNotReady ==
  \A t, u \in Tasks :
    ToldNotCached(t) /\ LaterNonWaiting(t, u) =>
      result[u] = NotReady /\ adds[u] = 0

\* the status a raw code stands for
StatusOf(raw) ==
  IF raw = <<0>> THEN "queued"
  ELSE IF raw = <<1>> THEN "downloading"
  ELSE IF raw = <<2>> THEN "cached"
  ELSE "unknown"

\* C10: codes 0, 1, 2 map to queued, downloading, cached and every other or
\* missing code to unknown; a call returns a URL it has built only after it
\* has seen the torrent cached, and a call that has seen it queued,
\* downloading or unknown only does not return a URL.
C10_OnlyCachedIsReady ==
  \A t \in Tasks :
    /\ md[t] # NoDownload => md[t].status = StatusOf(md[t].raw)
    /\ (result[t].kind = "url" /\ cachedLink[t].kind # "url") => md[t].raw = <<2>>
    /\ (md[t] # NoDownload /\ md[t].raw # <<2>> /\ Returned(t)) =>
         result[t] = NotReady

C10_Witness ==
  \E t, u \in Tasks :
    /\ Done(t) /\ result[t].kind = "url" /\ md[t].raw = <<2>> /\ lists[t] > 1
    /\ Done(u) /\ md[u].raw = << >> /\ md[u].status = "unknown"

\* the magnet of the request of t holds an info hash
ValidMagnet(t) == extractHashFromMagnet(Magnet(req[t])) # << >>

\* the gateway refused the POST of t: add was sent and resolve is over
\* without any listing
PostRefused(t) == Returned(t) /\ adds[t] = 1 /\ lists[t] = 0

\* C11: a magnet without a 40-hex info hash makes add fail with BAD_REQUEST
\* before any request is sent; a non-2xx answer to the add request makes it
\* fail with the upstream error; either failure is what resolve ends with
\* (neither a URL nor NotReady), and the call writes no cache entry.
C11_AddFailuresPropagate ==
  \A t \in Tasks :
    /\ (req[t].type = "torrent" /\ ~ValidMagnet(t) /\ Returned(t)) =>
         /\ result[t] = Thrown("BAD_REQUEST")
         /\ adds[t] = 0 /\ lists[t] = 0 /\ stored[t] = NoEntry
    /\ result[t] = Thrown("BAD_REQUEST") => ~ValidMagnet(t)
    /\ PostRefused(t) =>
         /\ result[t] = Thrown("INTERNAL_SERVER_ERROR")
         /\ stored[t] = NoEntry

C11_Witness ==
  \E t, u \in Tasks :
    /\ Done(t) /\ result[t] = Thrown("BAD_REQUEST") /\ adds[t] = 0
    /\ Done(u) /\ PostRefused(u) /\ result[u] = Thrown("INTERNAL_SERVER_ERROR")

\* t has seen its torrent cached and has nothing to play in it: no files at
\* all, or no file selected
NothingToPlay(t) ==
  /\ md[t].status = "cached" /\ Returned(t)
  /\ Len(md[t].files) = 0 \/ selectFile(md[t].files, req[t]) = 0

\* C12: when the torrent is cached but has no files, or no file of it is
\* selected, resolve fails with NO_MATCHING_FILE, returns no URL, and the
\* call writes no positive cache entry.
C12_NoFileNoLink ==
  \A t \in Tasks :
    NothingToPlay(t) =>
      /\ result[t] = Thrown("NO_MATCHING_FILE")
      /\ stored[t].val.kind # "url"

C12_Witness ==
  \E t, u \in Tasks :
    /\ NothingToPlay(t) /\ Done(t) /\ Len(md[t].files) = 0
    /\ NothingToPlay(u) /\ Done(u) /\ Len(md[u].files) > 1 /\ lists[u] > 1

\* the gateway acknowledged the POST of t, and addMagnet has gone on to its
\* listing and has the answer
Acknowledged(t) == adds[t] = 1 /\ lists[t] >= 1 /\ pc[t] # "listing"

\* addMagnet found the torrent in its listing: resolve keeps it as its
\* magnetDownload, a caller from outside resolve has it as the result
AddFound(t) ==
  IF Resolves(t) THEN md[t] # NoDownload ELSE result[t].kind = "download"

\* C13 as stated: once the gateway has acknowledged the submission, add
\* succeeds, whatever the later listing gives.
C13_AddSucceedsOnceAcknowledged ==
  \A t \in Tasks :
    Acknowledged(t) => result[t] # Thrown("INTERNAL_SERVER_ERROR")

\* C13, amended: after the acknowledgement add waits for its delay and lists
\* the torrents; it succeeds exactly when that listing holds the torrent,
\* whatever the status of the torrent, and otherwise (the listing failed, or
\* does not hold the torrent) fails with the upstream error, which ends
\* resolve.
C13_AddSucceedsWhenListed ==
  \A t \in Tasks :
    /\ pc[t] = "addDelay" =>
         /\ adds[t] = 1 /\ lists[t] = 0
         /\ wakeAt[t] <= now + TORRSERVER_ADD_DELAY_MS
    /\ Acknowledged(t) =>
         /\ ~AddFound(t) <=>
               Returned(t) /\ result[t] = Thrown("INTERNAL_SERVER_ERROR")
         /\ ~AddFound(t) => lists[t] = 1 /\ stored[t] = NoEntry

\* an add of resolve that did not find its torrent, and an add from outside
\* resolve that found its torrent queued
C13_Witness ==
  \E t, u \in Tasks :
    /\ Done(t) /\ Acknowledged(t) /\ Resolves(t) /\ md[t] = NoDownload
    /\ Done(u) /\ Acknowledged(u) /\ ~Resolves(u)
    /\ result[u].kind = "download" /\ result[u].download.status = "queued"

\* C14: for every info hash, in any letter case, and every sequence of
\* sources, the hash extracted from the magnet built from them is the
\* original hash in lower case; so for the magnet of _resolve and for the
\* magnet of the converter.
C14_MagnetRoundTrip ==
  (io.op = "magnet" /\ io.stage = "extracted") =>
    /\ io.fromMagnet = toLowerCase(io.hash)
    /\ io.fromLink = toLowerCase(io.hash)

C14_Witness ==
  /\ io.op = "magnet" /\ io.stage = "extracted"
  /\ io.hash # toLowerCase(io.hash)
  /\ io.sources = << HashTracker, PlainTracker >>
  /\ io.fromMagnet # [ i \in 1..HashLen |-> "b" ]

\* the credential as the builders take it: without surrounding blanks
Configured(auth) == trim(auth)

\* the text before the first colon, and the text after it
BeforeColon(str) == SubSeq(str, 1, indexOfColon(str) - 1)
AfterColon(str) == SubSeq(str, indexOfColon(str) + 1, Len(str))

\* C15: every playback URL built with a configured credential carries it:
\* a credential with a colon as userinfo, split at the first colon only;
\* a credential without a colon as the parameter apikey, the last of the
\* query, and not as userinfo.
C15_CredentialInPlaybackUrl ==
  (io.op = "url" /\ io.stage = "built" /\ Configured(io.auth) # << >>) =>
    IF includesColon(Configured(io.auth))
    THEN io.url.userinfo =
           << BeforeColon(Configured(io.auth)), AfterColon(Configured(io.auth)) >>
    ELSE /\ io.url.userinfo = << >>
         /\ io.url.query[Len(io.url.query)] = << "apikey", Configured(io.auth) >>

\* the base64 encoding of a text, kept apart from the text itself
Base64(str) == << "base64", str >>

\* C16: every request of the client, list and add, carries the configured
\* credential: one of the form user:secret as the header Authorization:
\* Basic <base64 of the credential>, one without a colon as an API-key
\* parameter of the query and not in the Authorization header.
C16_CredentialInRequests ==
  (io.op = "request" /\ io.stage = "sent" /\ Configured(io.auth) # << >>) =>
    IF includesColon(io.auth)
    THEN io.request.authorization = << "Basic", Base64(io.auth) >>
    ELSE /\ io.request.authorization = << >>
         /\ \E i \in 1..Len(io.request.query) :
              io.request.query[i][2] = Configured(io.auth)

\* two requests that differ in the letter case of the hash at most
SameButCase(r, q) ==
  /\ toLowerCase(r.hash) = toLowerCase(q.hash)
  /\ [r EXCEPT !.hash = << >>] = [q EXCEPT !.hash = << >>]

\* C17: the hash is case-insensitive throughout resolve: requests that
\* differ only in its letter case take the same lock and the same cache
\* entry, and a torrent listed under the lower-case hash is found by the
\* listing of add and by the listing of every poll.
C17_HashCaseInsensitive ==
  /\ \A t, u \in Tasks :
        (Plain(req[t]) /\ Plain(req[u]) /\ SameButCase(req[t], req[u])) =>
          /\ LockKey(req[t]) = LockKey(req[u])
          /\ CacheKey(req[t]) = CacheKey(req[u])
  /\ \A t \in Tasks : \A answer \in ListAnswers :
        (Plain(req[t]) /\ toLowerCase(req[t].hash) \in DOMAIN answer) =>
          /\ Listed(listMagnets(TRUE, answer),
                    extractHashFromMagnet(Magnet(req[t])))
          /\ Listed(listMagnets(TRUE, answer), req[t].hash)

\* the file index a playback URL of resolve designates
IndexOf(u) == u.url.query[2][2]

\* C18: a URL returned to a request with an explicit file index i, the
\* torrent having a file of index i, designates file i, whatever the
\* metadata and whatever earlier requests for the same hash and metadata
\* selected.
C18_ExplicitIndexDecides ==
  \A t \in Tasks :
    (Returned(t) /\ result[t].kind = "url" /\ req[t].index # << >>) =>
      << IndexOf(result[t]) >> = req[t].index

\* the call has the key of its request, granted and not yet expired
HoldsLock(t) ==
  /\ lock[LockKey(req[t])].holder = {t}
  /\ now < lock[LockKey(req[t])].expiry

\* C19: every POST /torrents/add of resolve is sent while the caller holds
\* the lock of its key and after a lookup of the playback link cache made
\* within the same hold: a call that had to wait for the lock looks the
\* cache up after it has the lock and before it submits.
C19_AddUnderLockAfterLookup ==
  [][\A t \in Tasks :
       /\ (Resolves(t) /\ adds'[t] # adds[t]) =>
            HoldsLock(t) /\ cachedLink'[t] # Unread
       /\ cachedLink'[t] # cachedLink[t] => HoldsLock(t)]_vars

\* the call is in the polling loop: it waits for the setTimeout of an
\* iteration, or for the answer to the listing of one
Polling(t) == pc[t] \in {"pollDelay", "polling"}

\* the call sends a listing in this step
Lists(t) == lists'[t] # lists[t]

\* C20: the polling loop of resolve terminates.  It is entered only by a call
\* that may wait and whose add reported a torrent that is not cached; it makes
\* at most TORRSERVER_MAX_POLL_ATTEMPTS list calls, each of them sent a full
\* TORRSERVER_POLL_INTERVAL_MS after the loop was entered or the list call
\* before it was answered; no list call follows the poll that saw the torrent
\* cached; and a call that is in the loop leaves it.
C20_PollingTerminates ==
  /\ [](\A t \in Tasks :
          /\ Polling(t) =>
                /\ req[t].cacheAndPlay
                /\ adds[t] = 1
                /\ md[t].status \notin {"none", "cached"}
                /\ attempt[t] < TORRSERVER_MAX_POLL_ATTEMPTS
          /\ pc[t] = "pollDelay" => lists[t] = attempt[t] + 1
          /\ pc[t] = "polling" => lists[t] = attempt[t] + 2
          /\ attempt[t] <= TORRSERVER_MAX_POLL_ATTEMPTS
          /\ lists[t] <= TORRSERVER_MAX_POLL_ATTEMPTS + 1)
  /\ [][\A t \in Tasks :
          /\ Lists(t) => md[t].status # "cached"
          /\ (Lists(t) /\ pc[t] = "pollDelay") => now >= wakeAt[t]
          /\ (pc'[t] = "pollDelay" /\ pc[t] # "pollDelay") =>
                wakeAt'[t] = now + TORRSERVER_POLL_INTERVAL_MS]_vars
  /\ \A t \in OneCall : Polling(t) ~> Returned(t)

\* a call left the loop at a poll that saw the torrent cached, after polls
\* that did not, one of its listings having been answered late
C20_Witness ==
  \E t \in Tasks :
    /\ attempt[t] \in 2..(TORRSERVER_MAX_POLL_ATTEMPTS - 1)
    /\ Done(t) /\ md[t].status = "cached" /\ result[t].kind = "url"
    /\ late = 1 /\ now > Seconds(Horizon)

\* the query of a URL has the parameter name, with the value val
HasParam(url, name) == \E i \in 1..Len(url.query) : url.query[i][1] = name
ParamIs(url, name, val) ==
  \E i \in 1..Len(url.query) : url.query[i] = << name, val >>

\* C21: every playback URL that is built, by _resolve as by convert, has the
\* autoplay flag (play=1) and the flag that keeps the torrent in the
\* gateway's history (save=true), with the content link and the file index.
C21_PlaybackFlags ==
  (io.op = "url" /\ io.stage = "built") =>
    /\ HasParam(io.url, "link")
    /\ HasParam(io.url, "index")
    /\ ParamIs(io.url, "play", "1")
    /\ ParamIs(io.url, "save", "true")

\* the key has a positive entry, a URL, that has not expired
PositiveEntry(k) == cache[k].val.kind = "url" /\ now < cache[k].expiry

\* C22: whatever the interleaving of the calls that share a cache key, calls
\* with different lock keys included, a positive entry written for the key
\* is not replaced by a negative entry before it expires.
C22_PositiveNotReplacedByNegative ==
  [][\A k \in CacheKeys : PositiveEntry(k) => cache'[k].val # Null]_vars

\* the stream has the URL: one is given, and it is not the empty text
HasUrl(x) == x # << >> /\ x[1] # EmptyUrl

\* a p2p stream with an info hash and with neither url nor externalUrl
P2pWithoutUrl(stream) ==
  /\ stream.type = "p2p"
  /\ stream.torrent # << >> /\ stream.torrent[1].infoHash # << >>
  /\ ~HasUrl(stream.url) /\ ~HasUrl(stream.externalUrl)

\* the user has an enabled service of the gateway with valid credentials
GatewayConfigured(services) ==
  \E i \in 1..Len(services) :
    /\ services[i].id = TORRSERVER_SERVICE
    /\ services[i].enabled # << FALSE >>
    /\ services[i].credentials.torrserverUrl # << >>
    /\ services[i].credentials.torrserverUrl[1] \in ValidUrls

\* C23: convert returns as many streams as it is given, in their order; a
\* stream that is not a p2p stream with an info hash and with neither url
\* nor externalUrl is returned as it is; without an enabled gateway service
\* with valid credentials every stream is returned as it is; convert sends
\* nothing to the gateway, and takes no lock and touches no cache entry.
C23_ConvertFrame ==
  (io.op = "convert" /\ io.stage = "returned") =>
    /\ Len(io.returned) = Len(io.streams)
    /\ \A i \in 1..Len(io.streams) :
          /\ io.returned[i].torrent = io.streams[i].torrent
          /\ io.returned[i].externalUrl = io.streams[i].externalUrl
          /\ ~P2pWithoutUrl(io.streams[i]) => io.returned[i] = io.streams[i]
    /\ ~GatewayConfigured(io.services) => io.returned = io.streams
    /\ adds = << >> /\ lists = << >>
    /\ \A k \in LockKeys : lock[k] = FreeLock
    /\ \A k \in CacheKeys : cache[k] = NoEntry

\* convert was given a stream it converts, of a torrent with a tracker, and
\* a stream that has a url, and has returned the first converted, its
\* torrent as it was, and the second as it was
C23_Witness ==
  /\ io.op = "convert" /\ io.stage = "returned"
  /\ GatewayConfigured(io.services)
  /\ Len(io.streams) = 2
  /\ P2pWithoutUrl(io.streams[1])
  /\ io.streams[1].torrent[1].sources = << PlainTracker >>
  /\ io.returned[1].torrent = io.streams[1].torrent
  /\ io.returned[1] # io.streams[1] /\ io.returned[1].type = "debrid"
  /\ io.streams[2].type = "p2p" /\ HasUrl(io.streams[2].url)
  /\ io.returned[2] = io.streams[2]

====
